---- MODULE Spec2Model ----
(***************************************************************************)
(* Model of app/orchestrator.py: the reconciliation pass of the OVS /      *)
(* Linux-bridge network orchestrator.                                      *)
(*                                                                         *)
(* One behaviour is a series of runs of main().  Each run loads the lease  *)
(* cache (db.json) and the desired-state document (config.json), applies   *)
(* the circuit breaker, reconciles every bridge, every container           *)
(* interface and every VLAN translation, and dumps the cache.              *)
(*                                                                         *)
(* Conventions                                                             *)
(*  - An address string "a.b.c.d/p" is the record [v, ip, plen]: v is the  *)
(*    IP version (4 or 6), ip the address as an integer and plen the       *)
(*    prefix length; plen = -1 is a string without a "/" part.  IPv4       *)
(*    addresses are the 32-bit value; an IPv6 address is its offset from   *)
(*    fd00::, and only prefixes of /98 and longer are used.  Two strings   *)
(*    are equal exactly when the records are equal.                        *)
(*  - Python None is NoneA for addresses and ranges, NoneS for strings,    *)
(*    <<>> for a trunk list and 0 for a VLAN id.                           *)
(*  - A handler is a chain of steps over a record s: the cache (db), the   *)
(*    host network and control plane (net), the container runtime (ct),    *)
(*    the calls issued so far, the exception raised (exc) and the          *)
(*    countdown k to the checked command that fails (0: none fails).       *)
(***************************************************************************)
EXTENDS FiniteSets, Integers, Sequences, TLC

VARIABLES
    linux,      \* _USE_LINUX_BRIDGE, fixed for the behaviour
    docs,       \* the documents config.json may hold in this behaviour
    config,     \* the document the current run loaded (0: none yet)
    disk,       \* db.json
    db,         \* _get_db(): the cache in memory
    net,        \* host network and control plane
    ct,         \* container runtime
    pc,         \* where main() is: idle, bridges, containers, translations, finally
    idx,        \* the item of the current loop that is next
    fail_count, \* db["failed"] as read at the start of the run
    exc,        \* the exception that ended the try block
    trace,      \* the items reconciled in this run, in order
    calls,      \* the commands the last step issued
    muts,       \* the commands other than reads issued in this run
    passes,     \* runs started
    starts,     \* containers started by the environment
    faults,     \* command failures the environment may still inject
    outcome,    \* how the last run ended
    dumped,     \* whether the last run wrote db.json
    rerun,      \* the run repeats the document of a successful run
    streak,     \* the latest runs that a failed command ended, in a row
    limit       \* the runs of this behaviour

\* ------------------------------------------------------------------ bounds
\* Runs of main() in one behaviour, under SpecBreaker and under Spec.
MaxPasses == 4
CtlPasses == 3
\* Containers the runtime starts while the orchestrator is idle.
MaxStarts == 1
\* Commands the environment makes fail, under SpecBreaker, under Spec and
\* under SpecAddr.
MaxFaults == 3
CtlFaults == 2
AddrFaults == 1
\* Runs of main() under SpecAddr.
AddrPasses == 3

\* --------------------------------------------------------------- constants
_MAX_FAIL_COUNT == 2
\* Host addresses the automatic allocation skips.
SkipHosts == 5

NoneS == "None"
NoneA == [v |-> 0, ip |-> 0, plen |-> 0]
NoIP == [v |-> 0, ip |-> 0, plen |-> 1]
NoExc == "none"

A4(ip, plen) == [v |-> 4, ip |-> ip, plen |-> plen]
A6(ip, plen) == [v |-> 6, ip |-> ip, plen |-> plen]

\* ------------------------------------------------------- ipaddress module
RECURSIVE Pow2(_)
Pow2(n) == IF n <= 0 THEN 1 ELSE 2 * Pow2(n - 1)

MaxPrefixLen(v) == IF v = 4 THEN 32 ELSE 128

\* if ipaddr := info.get(...): None and "" are falsy.
Truthy(a) == a # NoneA

\* ipaddress.ip_interface(s) parses: an address with an optional prefix.
InterfaceValid(a) ==
    /\ a.v \in {4, 6}
    /\ a.plen >= -1
    /\ a.plen <= MaxPrefixLen(a.v)

\* The prefix length of a network: a string without "/" (plen = -1) is
\* the network of one address, /32 or /128.
PrefixLen(r) == IF r.plen = -1 THEN MaxPrefixLen(r.v) ELSE r.plen

NetSize(r) == Pow2(MaxPrefixLen(r.v) - PrefixLen(r))

\* ipaddress.ip_network(s) parses (strict): an optional prefix, and no
\* host bits set.
NetworkValid(r) ==
    /\ r.v \in {4, 6}
    /\ r.plen >= -1
    /\ r.plen <= MaxPrefixLen(r.v)
    /\ r.ip % NetSize(r) = 0

\* ipaddress.ip_interface(a) in ipaddress.ip_network(r): same version and
\* the address (its own prefix ignored) under the network's mask.
InNetwork(a, r) ==
    /\ a.v = r.v
    /\ a.ip - (a.ip % NetSize(r)) = r.ip

\* ip_network(r).hosts(): the interval of host addresses.  IPv4 leaves out
\* the network and broadcast address, IPv6 the network address; a /31
\* (/127) keeps both addresses and a /32 (/128) its only one.
HostLo(r) == IF PrefixLen(r) >= MaxPrefixLen(r.v) - 1 THEN r.ip ELSE r.ip + 1
HostHi(r) ==
    IF PrefixLen(r) >= MaxPrefixLen(r.v) - 1 THEN r.ip + NetSize(r) - 1
    ELSE IF r.v = 4 THEN r.ip + NetSize(r) - 2
    ELSE r.ip + NetSize(r) - 1
HostCount(r) == HostHi(r) - HostLo(r) + 1

\* ------------------------------------------------------------ dictionaries
Values(m) == {m[k] : k \in DOMAIN m}
\* m.get(k): None when the key is missing.
Get(m, k) == IF k \in DOMAIN m THEN m[k] ELSE NoneA
\* m.pop(k, None)
Pop(m, k) == [x \in (DOMAIN m) \ {k} |-> m[x]]
\* m[k] = a
Put(m, k, a) == [x \in (DOMAIN m) \cup {k} |-> IF x = k THEN a ELSE m[x]]
EmptyMap == [x \in {} |-> NoneA]

\* ------------------------------------------------------------- lease cache
\* One bridge's entry of db.json: the cached ranges (None when never set),
\* the host maps that exist, and one {trunk, native} dictionary per parent.
EmptyEntry ==
    [range |-> [rk \in {"iprange", "ip6range"} |-> NoneA],
     hosts |-> [hk \in {} |-> EmptyMap],
     parents |-> [p \in {} |-> [trunk |-> <<>>, native |-> 0]]]
EmptyParent == [trunk |-> <<>>, native |-> 0]

\* The document before the first run: {} (failed = -1: the key is missing).
EmptyDb == [failed |-> -1, br |-> [b \in {} |-> EmptyEntry]]

HostsKey(rk) == IF rk = "iprange" THEN "iprange_hosts" ELSE "ip6range_hosts"
AddrKey(rk) == IF rk = "iprange" THEN "ipaddress" ELSE "ip6address"
FamilyOf(rk) == IF rk = "iprange" THEN 4 ELSE 6

\* ------------------------------------------------------- handler plumbing
\* A handler works on a record: the cache, the live state, the calls it
\* issued, the exception it raised, the countdown k to the checked command
\* that fails, and the address options of the add-port command line.
Start(d, n, c, kk) ==
    [db |-> d, net |-> n, ct |-> c, calls |-> <<>>, exc |-> NoExc, k |-> kk,
     cmd |-> [ipaddress |-> NoneA, ip6address |-> NoneA]]

\* A command line; check and rc are filled in when it is run: whether it
\* was run with check=True, and its return code (0, or 1 for a failure).
Call(op, on, arg) == [op |-> op, on |-> on, arg |-> arg, check |-> FALSE, rc |-> 0]

\* The command c, run with the given check flag, returned rc.
Ran(c, check, rc) == [c EXCEPT !.check = check, !.rc = rc]

\* The exception of a failed command logged and dropped.
Failed_swallowed(v, c) ==
    [v EXCEPT !.calls = Append(@, Ran(c, TRUE, 1)), !.k = 0]

\* except CalledProcessError: ... raise -- the failed command is logged
\* and the exception goes on to the caller.
Failed(v, c) ==
    [v EXCEPT !.calls = Append(@, Ran(c, TRUE, 1)), !.exc = "CalledProcessError",
              !.k = 0]

\* F applied to the value of s, s evaluated once.
Bind(s, F(_)) == CHOOSE r \in {F(v) : v \in {s}} : TRUE

\* The next statement of a handler: skipped once an exception is raised.
Do(s, F(_)) == Bind(s, LAMBDA v : IF v.exc # NoExc THEN v ELSE F(v))

Raise(v, e) == [v EXCEPT !.exc = e]

Always(v) == TRUE
Same(v) == v

\* _run_command(cmd, check): the command c is issued; Ok says whether it
\* can succeed in the current live state, Eff gives the state after it
\* succeeded.  A failing command changes nothing; with check=True it raises
\* CalledProcessError.  Any checked command may also fail for a reason
\* outside the model: the k-th one does when k counts down to 1.
_run_command(s, c, check, Ok(_), Eff(_)) ==
    Do(s, LAMBDA v :
        IF check /\ (v.k = 1 \/ ~Ok(v))
        THEN Failed(v, c)
        ELSE IF ~Ok(v) THEN [v EXCEPT !.calls = Append(@, Ran(c, FALSE, 1))]
        ELSE [Eff(v) EXCEPT !.calls = Append(@, Ran(c, check, 0)),
                            !.k = IF check /\ @ > 0 THEN @ - 1 ELSE @])

\* A command that only reads and returns 0 whatever it finds: docker ps,
\* ls, get-port.  The reads that return 1 when what they ask for is not
\* there (ip link show, port-to-br) are run with that as their condition.
Query(s, c) == _run_command(s, c, FALSE, Always, Same)

\* The membership test of the conflict check left out.
Taken_never(ipaddr, hosts) == FALSE

\* if ipaddr in hosts.values(): the address is reserved for another key.
Taken(ipaddr, hosts) == ipaddr \in Values(hosts)

\* db[b] = e
PutEntry(v, b, e) == [v EXCEPT !.db.br = Put(@, b, e)]

\* db[b][hk] = m
PutHosts(v, b, hk, m) == [v EXCEPT !.db.br[b].hosts = Put(@, hk, m)]

\* db[b].setdefault(p, {})
SetDefaultParent(v, b, p) ==
    IF p \in DOMAIN v.db.br[b].parents THEN v
    ELSE [v EXCEPT !.db.br[b].parents = Put(@, p, EmptyParent)]

\* parent_cache[key] = value
PutParentKey(v, b, p, key, value) ==
    [v EXCEPT !.db.br[b].parents[p][key] = value]

SeqToSet(q) == {q[i] : i \in 1..Len(q)}

\* --------------------------------------------------------- host and plane
\* Network devices of the host besides the veth pairs the orchestrator
\* makes: the uplink eth1 and the USB adapters.
HostDevs == {"eth1", "enx1", "enx2"}
UsbAlias == "usb:1-1"

\* The addresses the cache holds for the bridge, in place of the live ones.
_get_interface_ip_cached(v, b) ==
    UNION {{Get(v.db.br[b].hosts[hk], b)} : hk \in DOMAIN v.db.br[b].hosts}

\* ip -o addr show <bridge> fails: the bridge is not there, or it is the
\* checked command the countdown k lets fail.
AddrShowFails(v, b) == v.k = 1 \/ b \notin v.net.bridges

\* _get_interface_ip: the addresses ip -o addr show prints for the bridge;
\* the command is run with check=True and its CalledProcessError is
\* caught: a failure gives the empty list.
_get_interface_ip(v, b) == IF AddrShowFails(v, b) THEN {} ELSE v.net.addrs[b]

\* The call of _get_interface_ip recorded: checked, and raising nothing.
AddrShown(v, b) ==
    IF AddrShowFails(v, b)
    THEN [v EXCEPT !.calls = Append(@, Ran(Call("addr-show", b, ""), TRUE, 1)),
                   !.k = 0]
    ELSE [v EXCEPT !.calls = Append(@, Ran(Call("addr-show", b, ""), TRUE, 0)),
                   !.k = IF @ > 0 THEN @ - 1 ELSE @]

\* _veth_exists: ip link show <veth_end> returns 0.
_veth_exists(v, veth_end) == veth_end \in v.net.links

\* ovs-vsctl del-port / ip link set nomaster: the port leaves its bridge
\* and its port record, VLAN settings included, is gone.
Detached(v, p) ==
    [v EXCEPT !.net.master[p] = "", !.net.trunk[p] = {}, !.net.tag[p] = 0]

\* ovs-vsctl add-port b p [trunk=..] [vlan_mode=native-untagged tag=..]
Attached(v, p, b, trunk, tag) ==
    [v EXCEPT !.net.master[p] = b, !.net.trunk[p] = SeqToSet(trunk),
              !.net.tag[p] = tag]

\* ---------------------------------------------------------------- parents
\* for vid in value.split(","): bridge vlan add dev parent vid <vid> [pvid
\* untagged], each a checked command.
RECURSIVE VlanAdds(_, _, _, _)
VlanAdds(s, parent, vids, pvid) ==
    IF vids = <<>> THEN s
    ELSE VlanAdds(
        _run_command(s, Call("vlan-add", parent, IF pvid THEN "pvid" ELSE ""),
            TRUE, LAMBDA v : parent \in HostDevs,
            LAMBDA v : IF pvid THEN [v EXCEPT !.net.tag[parent] = Head(vids)]
                       ELSE [v EXCEPT !.net.trunk[parent] = @ \cup {Head(vids)}]),
        parent, Tail(vids), pvid)

_add_iface_to_ovs_bridge(s, bridge_name, parent_info) ==
    LET parent == parent_info.iface
        trunk == parent_info.trunk
        native_vlan == parent_info.native
        s1 == _run_command(
                  Do(s, LAMBDA v : SetDefaultParent(v, bridge_name, parent)),
                  Call("port-to-br", parent, ""), FALSE,
                  LAMBDA v : v.net.master[parent] # "", Same)
    IN  Do(s1, LAMBDA v :
            IF v.net.master[parent] = bridge_name THEN v
            ELSE LET s2 == _run_command(v, Call("del-port", parent, ""), FALSE,
                               Always, LAMBDA w : Detached(w, parent))
                     s3 == Do(s2, LAMBDA w :
                               IF trunk # <<>>
                               THEN PutParentKey(w, bridge_name, parent, "trunk", trunk)
                               ELSE w)
                     s4 == Do(s3, LAMBDA w :
                               IF native_vlan # 0
                               THEN PutParentKey(w, bridge_name, parent, "native",
                                                 native_vlan)
                               ELSE w)
                 IN  _run_command(s4, Call("add-port", parent, bridge_name), TRUE,
                         LAMBDA w : bridge_name \in w.net.bridges,
                         LAMBDA w : Attached(w, parent, bridge_name, trunk,
                                             native_vlan)))

_add_iface_to_linux_bridge(s, bridge_name, parent_info) ==
    LET parent == parent_info.iface
        trunk == parent_info.trunk
        native_vlan == parent_info.native
        s1 == _run_command(
                  Do(s, LAMBDA v : SetDefaultParent(v, bridge_name, parent)),
                  Call("link-show-master", bridge_name, ""), FALSE,
                  LAMBDA v : bridge_name \in v.net.bridges, Same)
        s5 == Do(s1, LAMBDA v :
                  IF v.net.master[parent] = bridge_name THEN v
                  ELSE LET s2 == _run_command(v, Call("nomaster", parent, ""), TRUE,
                                     LAMBDA w : parent \in HostDevs,
                                     LAMBDA w : Detached(w, parent))
                           s3 == _run_command(s2, Call("addif", parent, bridge_name),
                                     TRUE, LAMBDA w : bridge_name \in w.net.bridges,
                                     LAMBDA w : [w EXCEPT !.net.master[parent] =
                                                              bridge_name])
                       IN  _run_command(s3, Call("vlan-filtering", bridge_name, ""),
                               TRUE, LAMBDA w : bridge_name \in w.net.bridges, Same))
        s6 == IF trunk # <<>>
              THEN VlanAdds(
                       _run_command(
                           Do(s5, LAMBDA v : PutParentKey(v, bridge_name, parent,
                                                          "trunk", trunk)),
                           Call("vlan-del", parent, ""), TRUE,
                           LAMBDA v : parent \in HostDevs, Same),
                       parent, trunk, FALSE)
              ELSE s5
    IN  IF native_vlan # 0
        THEN VlanAdds(
                 _run_command(
                     Do(s6, LAMBDA v : PutParentKey(v, bridge_name, parent,
                                                    "native", native_vlan)),
                     Call("vlan-del", parent, ""), TRUE,
                     LAMBDA v : parent \in HostDevs, Same),
                 parent, <<native_vlan>>, TRUE)
        ELSE s6

\* The loop body of _add_iface_to_bridge for key "trunk" or "native":
\* cache and push the setting when it differs from the cached one.
ParentOption(s, bridge_name, parent, parent_info, key) ==
    LET value == parent_info[key]
    IN  Do(s, LAMBDA v :
            IF value = v.db.br[bridge_name].parents[parent][key] THEN v
            ELSE IF value = (IF key = "trunk" THEN <<>> ELSE 0)
            THEN PutParentKey(v, bridge_name, parent, key, value)
            ELSE IF linux
            THEN VlanAdds(
                     _run_command(
                         _run_command(
                             PutParentKey(v, bridge_name, parent, key, value),
                             Call("vlan-filtering", bridge_name, ""), TRUE,
                             LAMBDA w : bridge_name \in w.net.bridges, Same),
                         Call("vlan-del", parent, ""), TRUE,
                         LAMBDA w : parent \in HostDevs, Same),
                     parent, IF key = "trunk" THEN value ELSE <<value>>,
                     key = "native")
            ELSE _run_command(PutParentKey(v, bridge_name, parent, key, value),
                     Call("set-port", parent, key), TRUE,
                     LAMBDA w : w.net.master[parent] # "",
                     LAMBDA w : IF key = "trunk"
                                THEN [w EXCEPT !.net.trunk[parent] = SeqToSet(value)]
                                ELSE [w EXCEPT !.net.tag[parent] = value]))

_add_iface_to_bridge(s, bridge_name, parent_info) ==
    LET isUsb == parent_info.iface = UsbAlias
    IN  Do(s, LAMBDA v :
            IF parent_info.iface = NoneS THEN v
            ELSE IF isUsb /\ Cardinality(v.net.usb) > 1
            THEN Raise(Query(v, Call("ls-net", "", "")), "ValueError")
            ELSE IF isUsb /\ v.net.usb = {}
            THEN Raise(Query(v, Call("ls-net", "", "")), "IndexError")
            ELSE LET parent == IF isUsb THEN CHOOSE d \in v.net.usb : TRUE
                               ELSE parent_info.iface
                     s0 == IF isUsb THEN Query(v, Call("ls-net", "", "")) ELSE v
                     s1 == Do(s0, LAMBDA w : SetDefaultParent(w, bridge_name, parent))
                     s2 == _run_command(s1, Call("link-up", parent, ""), TRUE,
                               LAMBDA w : parent \in HostDevs, Same)
                     s3 == IF linux
                           THEN _add_iface_to_linux_bridge(s2, bridge_name, parent_info)
                           ELSE _add_iface_to_ovs_bridge(s2, bridge_name, parent_info)
                     s4 == ParentOption(s3, bridge_name, parent, parent_info, "trunk")
                 IN  ParentOption(s4, bridge_name, parent, parent_info, "native"))

RECURSIVE Parents(_, _, _)
Parents(s, bridge_name, parents) ==
    IF parents = <<>> THEN s
    ELSE Parents(_add_iface_to_bridge(s, bridge_name, Head(parents)),
                 bridge_name, Tail(parents))

\* ----------------------------------------------------------------- bridges
\* The range replaced, the reservations of the old range kept.
RangeChanged_keep(cached, range_key, ip_range) ==
    [cached EXCEPT !.range[range_key] = ip_range]

\* if (ip_range := info.get(range_key)) != db_cache.get(range_key): the
\* cached range is replaced and every host reservation of it dropped.
RangeChanged(cached, range_key, ip_range) ==
    [cached EXCEPT !.range[range_key] = ip_range,
                   !.hosts = Put(@, HostsKey(range_key), EmptyMap)]

\* ip {family} addr flush dev {bridge_name}
Flushed(v, bridge_name, range_key) ==
    [v EXCEPT !.net.addrs[bridge_name] = {a \in @ : a.v # FamilyOf(range_key)}]

\* The loop body of init_bridge for range_key "iprange" or "ip6range".
BridgeRange(s, bridge_name, info, range_key) ==
    LET ip_range == info[range_key]
        ip_addr == info[AddrKey(range_key)]
        hk == HostsKey(range_key)
    IN  Do(s, LAMBDA v :
            LET cached == v.db.br[bridge_name]
                e1 == IF ip_range # cached.range[range_key]
                      THEN RangeChanged(cached, range_key, ip_range)
                      ELSE cached
                e2 == IF hk \in DOMAIN e1.hosts THEN e1
                      ELSE [e1 EXCEPT !.hosts = Put(@, hk, EmptyMap)]
                hosts == e2.hosts[hk]
                vE == PutEntry(v, bridge_name, e2)
                changed == ip_addr # Get(hosts, bridge_name)
                hosts1 == IF changed THEN Pop(hosts, bridge_name) ELSE hosts
                sC == IF changed
                      THEN _run_command(PutHosts(vE, bridge_name, hk, hosts1),
                               Call("addr-flush", bridge_name, range_key), FALSE,
                               LAMBDA w : bridge_name \in w.net.bridges,
                               LAMBDA w : Flushed(w, bridge_name, range_key))
                      ELSE vE
            IN  IF ~Truthy(ip_addr)
                THEN _run_command(
                         PutHosts(vE, bridge_name, hk, Pop(hosts, bridge_name)),
                         Call("addr-flush", bridge_name, range_key), FALSE,
                         LAMBDA w : bridge_name \in w.net.bridges,
                         LAMBDA w : Flushed(w, bridge_name, range_key))
                ELSE Do(sC, LAMBDA w :
                      Bind(IF changed THEN w ELSE AddrShown(w, bridge_name),
                        LAMBDA y :
                        IF ~changed /\ ip_addr \in _get_interface_ip(w, bridge_name)
                        THEN y
                        ELSE IF changed /\ Taken(ip_addr, hosts1)
                        THEN Raise(y, "ValueError")
                        ELSE IF \/ ~InterfaceValid(ip_addr)
                                \/ ~NetworkValid(ip_range)
                                \/ ~InNetwork(ip_addr, ip_range)
                        THEN Raise(y, "ValueError")
                        ELSE _run_command(
                                 PutHosts(y, bridge_name, hk,
                                          Put(hosts1, bridge_name, ip_addr)),
                                 Call("addr-add", bridge_name, range_key), TRUE,
                                 LAMBDA x : bridge_name \in x.net.bridges,
                                 LAMBDA x : [x EXCEPT !.net.addrs[bridge_name] =
                                                          @ \cup {ip_addr}]))))

init_bridge(s, bridge_name, info) ==
    LET s0 == Do(s, LAMBDA v :
                  IF bridge_name \in DOMAIN v.db.br THEN v
                  ELSE PutEntry(v, bridge_name, EmptyEntry))
        s1 == IF linux
              THEN _run_command(s0, Call("add-br", bridge_name, ""), FALSE,
                       LAMBDA v : bridge_name \notin v.net.bridges,
                       LAMBDA v : [v EXCEPT !.net.bridges = @ \cup {bridge_name}])
              ELSE _run_command(s0, Call("add-br", bridge_name, ""), TRUE, Always,
                       LAMBDA v : [v EXCEPT !.net.bridges = @ \cup {bridge_name}])
        s2 == _run_command(s1, Call("link-up", bridge_name, ""), TRUE,
                  LAMBDA v : bridge_name \in v.net.bridges, Same)
        s3 == BridgeRange(s2, bridge_name, info, "iprange")
        s4 == BridgeRange(s3, bridge_name, info, "ip6range")
    IN  Parents(s4, bridge_name, info.parents)

\* -------------------------------------------------------------- containers
\* cmd = f"{cmd} --{ip_idx}={ipaddr}"
WithCmd(v, ip_idx, ipaddr) == [v EXCEPT !.cmd[ip_idx] = ipaddr]

\* macaddress.lower()
Lower(mac) == IF mac = "02:AA" THEN "02:aa" ELSE mac

\* The automatic allocation that starts at the first host of the range.
FreeHosts_noskip(ip_range, hosts) ==
    {h \in HostLo(ip_range)..HostHi(ip_range) :
        [v |-> ip_range.v, ip |-> h, plen |-> ip_range.plen] \notin Values(hosts)}

\* The automatic allocation without the look at the reserved addresses.
FreeHosts_any(ip_range, hosts) ==
    (HostLo(ip_range) + SkipHosts)..HostHi(ip_range)

\* The hosts the automatic allocation may take: those of ip_range beyond
\* the first SkipHosts whose string, with the range's prefix, is no value
\* of hosts.
FreeHosts(ip_range, hosts) ==
    {h \in (HostLo(ip_range) + SkipHosts)..HostHi(ip_range) :
        [v |-> ip_range.v, ip |-> h, plen |-> ip_range.plen] \notin Values(hosts)}

\* for host in network_hosts: the first one that is free.
Lowest(S) == CHOOSE h \in S : \A g \in S : h <= g

\* The loop body of add_iface_to_container for ip_idx "ipaddress" or
\* "ip6address": validate and reserve the explicit address, or allocate
\* one from the bridge's cached range.
ContainerAddress(s, container_name, info, ip_idx) ==
    LET bridge == info.bridge
        range_key == IF ip_idx = "ipaddress" THEN "iprange" ELSE "ip6range"
        hk == HostsKey(range_key)
        ipaddr == info[ip_idx]
    IN  Do(s, LAMBDA v :
            LET db_cache == v.db.br[bridge]
                hosts == db_cache.hosts[hk]
                ip_range == db_cache.range[range_key]
                popped == Pop(hosts, container_name)
                free == FreeHosts(ip_range, hosts)
                auto == [v |-> ip_range.v, ip |-> Lowest(free),
                         plen |-> ip_range.plen]
            IN  IF Truthy(ipaddr)
                THEN IF ipaddr = NoIP THEN v
                     ELSE IF ipaddr.plen = -1 THEN Raise(v, "ValueError")
                     ELSE IF \/ ~InterfaceValid(ipaddr)
                             \/ ipaddr.v # FamilyOf(range_key)
                     THEN Raise(v, "ValueError")
                     ELSE IF hk \notin DOMAIN db_cache.hosts
                     THEN Raise(v, "AttributeError")
                     ELSE IF /\ ipaddr # Get(hosts, container_name)
                             /\ Taken(ipaddr, popped)
                     THEN Raise(PutHosts(v, bridge, hk, popped), "ValueError")
                     ELSE WithCmd(
                              PutHosts(v, bridge, hk,
                                       Put(hosts, container_name, ipaddr)),
                              ip_idx, ipaddr)
                ELSE IF Truthy(ip_range)
                THEN IF ~NetworkValid(ip_range) THEN Raise(v, "ValueError")
                     ELSE IF PrefixLen(ip_range) = MaxPrefixLen(ip_range.v)
                     THEN Raise(v, "TypeError")
                     ELSE IF HostCount(ip_range) < SkipHosts
                     THEN Raise(v, "StopIteration")
                     ELSE IF HostCount(ip_range) = SkipHosts
                     THEN Raise(v, "IndexError")
                     ELSE IF hk \notin DOMAIN db_cache.hosts
                     THEN Raise(v, "AttributeError")
                     ELSE IF free = {} THEN Raise(v, "IndexError")
                     ELSE WithCmd(
                              PutHosts(v, bridge, hk,
                                       Put(hosts, container_name, auto)),
                              ip_idx, auto)
                ELSE v)

NoIface == [present |-> FALSE, mac |-> "", ipaddress |-> NoneA, ip6address |-> NoneA]
NoPort == [present |-> FALSE, bridge |-> "", vlan |-> 0, trunk |-> <<>>]

\* ovs-docker / lxbr-docker add-port: the interface appears in the
\* container with the resolved options, and the port record on the bridge.
PortAdded(v, container_name, info) ==
    [v EXCEPT
        !.ct.iface[<<container_name, info.iface>>] =
            [present |-> TRUE,
             mac |-> IF info.macaddress = "" THEN "random"
                     ELSE Lower(info.macaddress),
             ipaddress |-> v.cmd.ipaddress,
             ip6address |-> v.cmd.ip6address],
        !.ct.port[<<container_name, info.iface>>] =
            [present |-> TRUE, bridge |-> info.bridge, vlan |-> 0, trunk |-> <<>>]]

\* The VLAN and trunk commands issued whatever was requested.
CreateIface_all(s, container_name, info) ==
    _run_command(
        _run_command(
            _run_command(s, Call("ct-add-port", container_name, info.iface),
                TRUE, LAMBDA v : ~v.ct.port[<<container_name, info.iface>>].present,
                LAMBDA v : PortAdded(v, container_name, info)),
            Call("ct-set-vlan", container_name, info.iface), TRUE, Always,
            LAMBDA v : [v EXCEPT !.ct.port[<<container_name, info.iface>>].vlan =
                                     info.vlan]),
        Call("ct-set-trunk", container_name, info.iface), TRUE, Always,
        LAMBDA v : [v EXCEPT !.ct.port[<<container_name, info.iface>>].trunk =
                                 info.trunk])

\* The end of add_iface_to_container: the add-port command and the VLAN
\* and trunk commands that follow it.
CreateIface(s, container_name, info) ==
    LET key == <<container_name, info.iface>>
        sB == _run_command(s, Call("ct-add-port", container_name, info.iface),
                  TRUE, LAMBDA v : ~v.ct.port[key].present,
                  LAMBDA v : PortAdded(v, container_name, info))
        sC == IF info.vlan # 0
              THEN _run_command(sB, Call("ct-set-vlan", container_name, info.iface),
                       TRUE, LAMBDA v : v.ct.port[key].present,
                       LAMBDA v : [v EXCEPT !.ct.port[key].vlan = info.vlan])
              ELSE sB
    IN  IF info.trunk # <<>>
        THEN _run_command(sC, Call("ct-set-trunk", container_name, info.iface),
                 TRUE, LAMBDA v : v.ct.port[key].present,
                 LAMBDA v : [v EXCEPT !.ct.port[key].trunk = info.trunk])
        ELSE sC

\* The part of add_iface_to_container after the addresses are resolved:
\* what is done depends on whether the interface is in the container and
\* whether the control plane knows its port.
ReconcileIface(s, container_name, info) ==
    LET key == <<container_name, info.iface>>
        macaddress == info.macaddress
        s3 == _run_command(s, Call("ct-link-show", container_name, info.iface),
                  FALSE, LAMBDA v : v.ct.iface[key].present, Same)
    IN  Do(s3, LAMBDA v :
            IF v.ct.iface[key].present
            THEN Do(Query(v, Call("get-port", container_name, info.iface)),
                    LAMBDA w :
                    IF w.ct.port[key].present
                    THEN Do(Query(w, Call("ct-link-show-dev", container_name,
                                          info.iface)),
                            LAMBDA x :
                            IF Lower(macaddress) = x.ct.iface[key].mac
                               \/ macaddress = ""
                            THEN x
                            ELSE _run_command(x,
                                     Call("ct-set-mac", container_name, info.iface),
                                     FALSE, Always,
                                     LAMBDA y : [y EXCEPT !.ct.iface[key].mac =
                                                              Lower(macaddress)]))
                    ELSE CreateIface(
                             _run_command(
                                 _run_command(w,
                                     Call("ct-link-del", container_name, info.iface),
                                     FALSE, Always,
                                     LAMBDA y : [y EXCEPT !.ct.iface[key] = NoIface]),
                                 Call("ct-del-port", container_name, info.iface),
                                 FALSE, Always,
                                 LAMBDA y : [y EXCEPT !.ct.port[key] = NoPort]),
                             container_name, info))
            ELSE CreateIface(
                     _run_command(v,
                         Call("ct-del-port", container_name, info.iface),
                         FALSE, Always,
                         LAMBDA y : [y EXCEPT !.ct.port[key] = NoPort]),
                     container_name, info))

add_iface_to_container(s, container_name, info) ==
    Do(Query(s, Call("docker-ps", container_name, "")), LAMBDA v :
        IF container_name \notin v.ct.running THEN v
        ELSE IF info.bridge \notin DOMAIN v.db.br THEN Raise(v, "KeyError")
        ELSE ReconcileIface(
                 ContainerAddress(
                     ContainerAddress(v, container_name, info, "ipaddress"),
                     container_name, info, "ip6address"),
                 container_name, info))

\* --------------------------------------------------------- VLAN translation
\* _hash_string: the first 8 hex digits of the SHA-256 of the mapping.
_hash_string(string) ==
    IF string = "100:200" THEN "4e0f0408" ELSE "5e1b18e0"

\* source_vlan, dest_vlan = vlan_map.split(":")
SplitMap(vlan_map) == IF vlan_map = "100:200" THEN <<100, 200>> ELSE <<10, 20>>

\* f"v0_{vlan_hash}", f"v1_{vlan_hash}"
VethName(i, vlan_hash) ==
    IF vlan_hash = "4e0f0408"
    THEN (IF i = 0 THEN "v0_4e0f0408" ELSE "v1_4e0f0408")
    ELSE (IF i = 0 THEN "v0_5e1b18e0" ELSE "v1_5e1b18e0")

\* The test for another bridge left out.
OnOtherBridge_never(master, on_bridge) == FALSE

\* if check.stdout.strip() != on_bridge: the port is on another bridge.
OnOtherBridge(master, on_bridge) == master # on_bridge

\* The loop body of create_veth_pair for one endpoint and its VLAN.
VethEnd(s, on_bridge, veth_name, vlan) ==
    Do(_run_command(s, Call("port-to-br", veth_name, ""), FALSE,
           LAMBDA v : v.net.master[veth_name] # "", Same), LAMBDA v :
        IF v.net.master[veth_name] = ""
        THEN _run_command(
                 _run_command(v, Call("add-port", veth_name, on_bridge), TRUE,
                     LAMBDA w : on_bridge \in w.net.bridges,
                     LAMBDA w : Attached(w, veth_name, on_bridge, <<>>, 0)),
                 Call("set-port", veth_name, "tag"), TRUE,
                 LAMBDA w : w.net.master[veth_name] # "",
                 LAMBDA w : [w EXCEPT !.net.tag[veth_name] = vlan])
        ELSE IF OnOtherBridge(v.net.master[veth_name], on_bridge)
        THEN Raise(v, "ValueError")
        ELSE v)

create_veth_pair(s, on_bridge, vlan_map) ==
    LET vlan_hash == _hash_string(vlan_map)
        veth0 == VethName(0, vlan_hash)
        veth1 == VethName(1, vlan_hash)
        s5 == Do(_run_command(s, Call("link-show", veth0, ""), FALSE,
                     LAMBDA v : _veth_exists(v, veth0), Same), LAMBDA v :
                  IF _veth_exists(v, veth0) THEN v
                  ELSE _run_command(
                           _run_command(
                               _run_command(v, Call("link-add", veth0, veth1), TRUE,
                                   LAMBDA w : veth1 \notin w.net.links,
                                   LAMBDA w : [w EXCEPT !.net.links =
                                                            @ \cup {veth0, veth1}]),
                               Call("link-up", veth0, ""), TRUE,
                               LAMBDA w : veth0 \in w.net.links, Same),
                           Call("link-up", veth1, ""), TRUE,
                           LAMBDA w : veth1 \in w.net.links, Same))
        s6 == VethEnd(s5, on_bridge, veth0, SplitMap(vlan_map)[1])
    IN  VethEnd(s6, on_bridge, veth1, SplitMap(vlan_map)[2])

\* ------------------------------------------------ desired-state documents
\* config.json is one of a catalogue of documents; the environment may
\* replace it between two runs.
Bridge(name, iprange, ipaddress, ip6range, ip6address, parents) ==
    [name |-> name, iprange |-> iprange, ipaddress |-> ipaddress,
     ip6range |-> ip6range, ip6address |-> ip6address, parents |-> parents]

Parent(iface, trunk, native) == [iface |-> iface, trunk |-> trunk, native |-> native]

Iface(bridge, ipaddress, ip6address, macaddress, vlan, trunk) ==
    [iface |-> "eth0", bridge |-> bridge, ipaddress |-> ipaddress,
     ip6address |-> ip6address, macaddress |-> macaddress,
     vlan |-> vlan, trunk |-> trunk]

Container(name, ifaces) == [name |-> name, ifaces |-> ifaces]

Translation(on, map) == [on |-> on, map |-> map]

\* 10.0.0.0 and 10.0.1.0 as 32-bit integers.
Net10_0_0 == 10 * Pow2(24)
Net10_0_1 == 10 * Pow2(24) + Pow2(8)

Range0 == A4(Net10_0_0, 24)
Range1 == A4(Net10_0_1, 24)
Range6 == A6(0, 124)

Br0Base ==
    Bridge("br0", Range0, A4(Net10_0_0 + 1, 24), Range6, A6(1, 124),
           <<Parent("eth1", <<10>>, 0)>>)
Br1Plain == Bridge("br1", NoneA, NoneA, NoneA, NoneA, <<>>)

\* 1: the base document.  2: br0 moves to another IPv4 range, its parent
\* gets a native VLAN and c1 an explicit address with a prefix length of
\* its own.  3: c2 asks for an
\* address outside br0's range, c1 for the bridge's own address.
\* 4: a container interface names a bridge that is not declared, and the
\* translation moves to br1.  5: br0's range has too few hosts to skip.
\* 6: c1 and c2 ask for the same address.  7: br0 asks for the address the
\* automatic allocation gives out first.  8: br0's range has one host
\* beyond the skipped ones, and c2 asks for a trunk.  9: br0's parent is
\* given by its USB port, without VLAN settings.  10: the USB parent has
\* a trunk.
Doc(d) ==
    CASE d = 1 ->
        [bridge |-> <<Br0Base, Br1Plain>>,
         container |-> <<Container("c1", <<Iface("br0", NoneA, NoneA, "02:AA", 0, <<>>)>>),
                         Container("c2", <<Iface("br0", NoneA, NoneA, "", 5, <<>>)>>)>>,
         vlan_translations |-> <<Translation("br0", "100:200")>>]
      [] d = 2 ->
        [bridge |-> <<Bridge("br0", Range1, A4(Net10_0_1 + 1, 24), Range6, A6(1, 124),
                             <<Parent("eth1", <<10>>, 30)>>), Br1Plain>>,
         container |-> <<Container("c1", <<Iface("br0", A4(Net10_0_1 + 6, 16), NoneA, "02:AA", 0, <<>>)>>),
                         Container("c2", <<Iface("br0", NoneA, NoneA, "", 5, <<>>)>>)>>,
         vlan_translations |-> <<Translation("br0", "100:200")>>]
      [] d = 3 ->
        [bridge |-> <<Br0Base, Br1Plain>>,
         container |-> <<Container("c2", <<Iface("br0", A4(Net10_0_1 + 1, 24), NoneA, "", 0, <<>>)>>),
                         Container("c1", <<Iface("br0", A4(Net10_0_0 + 1, 24), NoneA, "", 0, <<>>)>>)>>,
         vlan_translations |-> <<Translation("br0", "100:200")>>]
      [] d = 4 ->
        [bridge |-> <<Br0Base>>,
         container |-> <<Container("c1", <<Iface("br1", NoneA, NoneA, "", 0, <<>>)>>)>>,
         vlan_translations |-> <<Translation("br1", "100:200")>>]
      [] d = 6 ->
        [bridge |-> <<Br0Base, Br1Plain>>,
         container |-> <<Container("c1", <<Iface("br0", A4(Net10_0_0 + 9, 24), NoneA, "02:AA", 0, <<>>)>>),
                         Container("c2", <<Iface("br0", A4(Net10_0_0 + 9, 24), NoneA, "", 5, <<>>)>>)>>,
         vlan_translations |-> <<Translation("br0", "100:200")>>]
      [] d = 7 ->
        [bridge |-> <<Bridge("br0", Range0, A4(Net10_0_0 + 6, 24), Range6, A6(1, 124),
                             <<Parent("eth1", <<10>>, 0)>>), Br1Plain>>,
         container |-> <<Container("c1", <<Iface("br0", NoneA, NoneA, "02:AA", 0, <<>>)>>),
                         Container("c2", <<Iface("br0", NoneA, NoneA, "", 5, <<10, 20>>)>>)>>,
         vlan_translations |-> <<Translation("br0", "100:200")>>]
      [] d = 8 ->
        [bridge |-> <<Bridge("br0", A4(Net10_0_0, 29), A4(Net10_0_0 + 1, 29),
                             NoneA, NoneA, <<>>)>>,
         container |-> <<Container("c1", <<Iface("br0", NoneA, NoneA, "", 0, <<>>)>>),
                         Container("c2", <<Iface("br0", NoneA, NoneA, "", 0, <<10, 20>>)>>)>>,
         vlan_translations |-> <<>>]
      [] d = 9 ->
        [bridge |-> <<Bridge("br0", NoneA, NoneA, NoneA, NoneA,
                             <<Parent(UsbAlias, <<>>, 0)>>),
                      Bridge("br1", Range1, A4(Net10_0_1 + 1, 24), NoneA, NoneA,
                             <<Parent("eth1", <<10>>, 30)>>)>>,
         container |-> <<Container("c1", <<Iface("br0", NoIP, NoneA, "", 0, <<>>)>>)>>,
         vlan_translations |-> <<Translation("br1", "100:200")>>]
      [] d = 10 ->
        [bridge |-> <<Bridge("br0", NoneA, NoneA, NoneA, NoneA,
                             <<Parent(UsbAlias, <<10>>, 0)>>)>>,
         container |-> <<Container("c1", <<Iface("br0", NoIP, NoneA, "", 0, <<>>)>>)>>,
         vlan_translations |-> <<Translation("br0", "100:200")>>]
      [] OTHER ->
        [bridge |-> <<Bridge("br0", A4(Net10_0_0, 30), A4(Net10_0_0 + 1, 30),
                             NoneA, NoneA, <<>>)>>,
         container |-> <<Container("c1", <<Iface("br0", NoneA, NoneA, "", 0, <<>>)>>)>>,
         vlan_translations |-> <<>>]

\* The documents of the catalogue.
NDocs == 10

BridgeNames == {"br0", "br1"}
ContainerNames == {"c1", "c2"}
IfaceKeys == {<<c, "eth0">> : c \in ContainerNames}
Ports == HostDevs \cup {UsbAlias} \cup
    {VethName(i, _hash_string(m)) : i \in {0, 1}, m \in {"100:200"}}

\* for container, iface_info in config["container"].items():
\*     for info in iface_info: ...
RECURSIVE ContainerItems(_)
ContainerItems(cs) ==
    IF cs = <<>> THEN <<>>
    ELSE [i \in 1..Len(Head(cs).ifaces) |->
             [name |-> Head(cs).name, info |-> Head(cs).ifaces[i]]]
         \o ContainerItems(Tail(cs))

vars == <<linux, docs, config, disk, db, net, ct, pc, idx, fail_count, exc,
          trace, calls, muts, passes, starts, faults, outcome, dumped, rerun,
          streak, limit>>

\* ------------------------------------------------------------------- main
\* Commands that only read the live state.
ReadOps == {"port-to-br", "link-show-master", "addr-show", "ls-net", "docker-ps",
            "ct-link-show", "get-port", "ct-link-show-dev", "link-show",
            "lsmod", "grep"}

Issued(cs) == {cs[i].op : i \in 1..Len(cs)} \ ReadOps

\* except (CalledProcessError, ValueError, IndexError)
Caught == {"CalledProcessError", "ValueError", "IndexError"}

\* The guard of the breaker written with >= : the pass that starts at the
\* maximum is already refused.
Tripped_ge(fc) == fc >= _MAX_FAIL_COUNT

\* The guard of the breaker left out.
Tripped_never(fc) == FALSE

\* if fail_count > _MAX_FAIL_COUNT: sys.exit(1)
Tripped(fc) == fc > _MAX_FAIL_COUNT

\* The checked commands one handler can issue.
MaxChecked == 14

\* The next loop position of the try block from (phase, i) on: bridges,
\* then container interfaces, then (not for Linux bridges) translations.
RECURSIVE Advance(_, _, _)
Advance(doc, phase, i) ==
    IF phase = "bridges"
    THEN IF i <= Len(doc.bridge) THEN <<phase, i>>
         ELSE Advance(doc, "containers", 1)
    ELSE IF phase = "containers"
    THEN IF i <= Len(ContainerItems(doc.container)) THEN <<phase, i>>
         ELSE IF linux THEN <<"finally", 0>>
         ELSE Advance(doc, "translations", 1)
    ELSE IF i <= Len(doc.vlan_translations) THEN <<phase, i>>
    ELSE <<"finally", 0>>

\* _check_ovs_module: lsmod, then grep openvswitch on its output.  lsmod is
\* run with check=True outside any try block (f = 1: it fails); a grep
\* that finds nothing ends the process with sys.exit(1).
_check_ovs_module(f) ==
    IF f = 1
    THEN [exit |-> "CalledProcessError",
          calls |-> <<Ran(Call("lsmod", "", ""), TRUE, 1)>>]
    ELSE IF ~net.ovs_module
    THEN [exit |-> "SystemExit",
          calls |-> <<Ran(Call("lsmod", "", ""), TRUE, 0),
                      Ran(Call("grep", "", "openvswitch"), TRUE, 1)>>]
    ELSE [exit |-> NoExc,
          calls |-> <<Ran(Call("lsmod", "", ""), TRUE, 0),
                      Ran(Call("grep", "", "openvswitch"), TRUE, 0)>>]

\* The sysctl command of the Linux bridge mode, checked and outside the
\* try block (f = 1: it fails).
Sysctl(f) ==
    IF f = 1
    THEN [exit |-> "CalledProcessError",
          calls |-> <<Ran(Call("sysctl", "", ""), TRUE, 1)>>]
    ELSE [exit |-> NoExc, calls |-> <<Ran(Call("sysctl", "", ""), TRUE, 0)>>]

\* main() before the failure counter is read: the docker socket must be
\* there, the module check or the sysctl command must pass, and db.json
\* must be there to be loaded.  exit is what ends the process, if anything,
\* and calls are the commands issued; f = 1 lets the first command fail.
Preamble(f) ==
    IF ~ct.sock THEN [exit |-> "SystemExit", calls |-> <<>>]
    ELSE LET r == IF linux THEN Sysctl(f) ELSE _check_ovs_module(f)
         IN  IF r.exit # NoExc THEN r
             ELSE IF ~net.db_json THEN [r EXCEPT !.exit = "FileNotFoundError"]
             ELSE r

\* main() up to the try block: load config.json and db.json, read the
\* failure counter and stop right away when it exceeds the maximum.
PassStart(d) ==
    /\ pc = "idle"
    /\ passes < limit
    /\ d \in docs
    /\ passes' = passes + 1
    /\ config' = d
    /\ trace' = <<>>
    /\ dumped' = FALSE
    /\ rerun' = (outcome = "ok" /\ d = config)
    /\ \E f \in {0, 1} : \E r \in {Preamble(f)} :
           /\ f = 1 => (faults > 0 /\ r.exit = "CalledProcessError")
           /\ faults' = faults - f
           /\ calls' = r.calls
           /\ muts' = Issued(r.calls)
           /\ IF r.exit # NoExc
              THEN /\ exc' = r.exit
                   /\ db' = disk
                   /\ fail_count' = 0
                   /\ pc' = "idle"
                   /\ idx' = 0
                   /\ outcome' = "aborted"
              ELSE /\ exc' = NoExc
                   /\ db' = [disk EXCEPT !.failed = IF @ = -1 THEN 0 ELSE @]
                   /\ fail_count' = db'.failed
                   /\ IF Tripped(fail_count')
                      THEN /\ pc' = "idle"
                           /\ idx' = 0
                           /\ outcome' = "tripped"
                      ELSE /\ pc' = Advance(Doc(d), "bridges", 1)[1]
                           /\ idx' = Advance(Doc(d), "bridges", 1)[2]
                           /\ outcome' = "running"
    /\ UNCHANGED <<linux, docs, disk, net, ct, starts, streak, limit>>

\* The try block with the exception of an item swallowed: the loops go on
\* with the next item.
Step_keep_going(r, item, kk) ==
    /\ kk = 0 \/ (faults > 0 /\ r.k = 0)
    /\ faults' = IF kk = 0 THEN faults ELSE faults - 1
    /\ db' = r.db
    /\ net' = r.net
    /\ ct' = r.ct
    /\ calls' = r.calls
    /\ muts' = muts \cup Issued(r.calls)
    /\ trace' = Append(trace, item)
    /\ exc' = IF r.exc = NoExc THEN exc ELSE r.exc
    /\ pc' = Advance(Doc(config), pc, idx + 1)[1]
    /\ idx' = Advance(Doc(config), pc, idx + 1)[2]
    /\ UNCHANGED <<linux, docs, config, disk, fail_count, passes, starts, outcome,
                   dumped, rerun, streak, limit>>

\* One item of a loop of the try block ran and left r.
Step(r, item, kk) ==
    /\ kk = 0 \/ (faults > 0 /\ r.k = 0)
    /\ faults' = IF kk = 0 THEN faults ELSE faults - 1
    /\ db' = r.db
    /\ net' = r.net
    /\ ct' = r.ct
    /\ calls' = r.calls
    /\ muts' = muts \cup Issued(r.calls)
    /\ trace' = Append(trace, item)
    /\ exc' = r.exc
    /\ pc' = IF r.exc = NoExc THEN Advance(Doc(config), pc, idx + 1)[1] ELSE "finally"
    /\ idx' = IF r.exc = NoExc THEN Advance(Doc(config), pc, idx + 1)[2] ELSE 0
    /\ UNCHANGED <<linux, docs, config, disk, fail_count, passes, starts, outcome,
                   dumped, rerun, streak, limit>>

\* for bridge, info in config["bridge"].items(): init_bridge(bridge, info)
InitBridge(kk) ==
    /\ pc = "bridges"
    /\ LET info == Doc(config).bridge[idx]
       IN  \E r \in {init_bridge(Start(db, net, ct, kk), info.name, info)} :
               Step(r, <<"bridge", info.name>>, kk)

\* add_iface_to_container(container, info)
AddIface(kk) ==
    /\ pc = "containers"
    /\ LET item == ContainerItems(Doc(config).container)[idx]
       IN  \E r \in {add_iface_to_container(Start(db, net, ct, kk), item.name,
                                                  item.info)} :
               Step(r, <<"container", item.name>>, kk)

\* create_veth_pair(on_bridge=translation["on"], vlan_map=translation["map"])
CreateVeth(kk) ==
    /\ pc = "translations"
    /\ LET tr == Doc(config).vlan_translations[idx]
       IN  \E r \in {create_veth_pair(Start(db, net, ct, kk), tr.on, tr.map)} :
               Step(r, <<"translation", tr.map>>, kk)

\* The end of main(): the except clause counts a caught failure, and the
\* finally clause dumps the cache whatever ended the try block.
PassEnd ==
    /\ pc = "finally"
    /\ db' = IF exc \in Caught THEN [db EXCEPT !.failed = fail_count + 1] ELSE db
    /\ disk' = db'
    /\ dumped' = TRUE
    /\ outcome' = IF exc = NoExc THEN "ok"
                  ELSE IF exc \in Caught THEN "failed" ELSE "crashed"
    /\ streak' = IF exc = "CalledProcessError" THEN streak + 1 ELSE 0
    /\ pc' = "idle"
    /\ UNCHANGED <<linux, docs, config, net, ct, idx, fail_count, exc, trace, calls,
                   muts, passes, starts, faults, rerun, limit>>

\* The container runtime starts a container while the orchestrator is idle.
ContainerStart(c) ==
    /\ pc = "idle"
    /\ starts < MaxStarts
    /\ c \notin ct.running
    /\ ct' = [ct EXCEPT !.running = @ \cup {c}]
    /\ starts' = starts + 1
    /\ outcome' = "env"
    /\ UNCHANGED <<linux, docs, config, disk, db, net, pc, idx, fail_count, exc,
                   trace, calls, muts, passes, faults, dumped, rerun, streak, limit>>

\* The addresses of a bridge are lost while the orchestrator is idle (an
\* operator flushes them, the interface is re-created).
AddressLost(b) ==
    /\ pc = "idle"
    /\ starts < MaxStarts
    /\ b \in net.bridges
    /\ net.addrs[b] # {}
    /\ net' = [net EXCEPT !.addrs[b] = {}]
    /\ starts' = starts + 1
    /\ outcome' = "env"
    /\ UNCHANGED <<linux, docs, config, disk, db, ct, pc, idx, fail_count, exc,
                   trace, calls, muts, passes, faults, dumped, rerun, streak, limit>>

\* The control plane loses the port record of a container interface that
\* is still in the container (the "corner case" of add_iface_to_container:
\* the switch was restarted).
PortLost(c) ==
    /\ pc = "idle"
    /\ starts < MaxStarts
    /\ ct.port[<<c, "eth0">>].present
    /\ ct.iface[<<c, "eth0">>].present
    /\ ct' = [ct EXCEPT !.port[<<c, "eth0">>] = NoPort]
    /\ starts' = starts + 1
    /\ outcome' = "env"
    /\ UNCHANGED <<linux, docs, config, disk, db, net, pc, idx, fail_count, exc,
                   trace, calls, muts, passes, faults, dumped, rerun, streak, limit>>

\* A running container is restarted: its namespace is new and holds no
\* interface, the port record of the old interface stays behind.
ContainerRestart(c) ==
    /\ pc = "idle"
    /\ starts < MaxStarts
    /\ c \in ct.running
    /\ ct.iface[<<c, "eth0">>].present
    /\ ct' = [ct EXCEPT !.iface[<<c, "eth0">>] = NoIface]
    /\ starts' = starts + 1
    /\ outcome' = "env"
    /\ UNCHANGED <<linux, docs, config, disk, db, net, pc, idx, fail_count, exc,
                   trace, calls, muts, passes, faults, dumped, rerun, streak, limit>>

Next ==
    \/ \E d \in 1..NDocs : PassStart(d)
    \/ \E kk \in 0..MaxChecked : InitBridge(kk)
    \/ \E kk \in 0..MaxChecked : AddIface(kk)
    \/ \E kk \in 0..MaxChecked : CreateVeth(kk)
    \/ PassEnd
    \/ \E c \in ContainerNames : ContainerStart(c)
    \/ \E b \in BridgeNames : AddressLost(b)
    \/ \E c \in ContainerNames : PortLost(c)
    \/ \E c \in ContainerNames : ContainerRestart(c)

InitNet ==
    [bridges |-> {}, addrs |-> [b \in BridgeNames |-> {}],
     master |-> [p \in Ports |-> ""], trunk |-> [p \in Ports |-> {}],
     tag |-> [p \in Ports |-> 0], links |-> {}, usb |-> {"enx1"},
     ovs_module |-> TRUE, db_json |-> TRUE]

InitCt ==
    [running |-> {"c1"}, iface |-> [k \in IfaceKeys |-> NoIface],
     port |-> [k \in IfaceKeys |-> NoPort], sock |-> TRUE]

\* The hosts the orchestrator is started on: a complete one, one without
\* the openvswitch module, one without db.json and one without the docker
\* socket.
Hosts ==
    {<<InitNet, InitCt>>,
     <<[InitNet EXCEPT !.ovs_module = FALSE], InitCt>>,
     <<[InitNet EXCEPT !.db_json = FALSE], InitCt>>,
     <<InitNet, [InitCt EXCEPT !.sock = FALSE]>>}

InitWith(D, f, p) ==
    /\ linux \in BOOLEAN
    /\ docs = D
    /\ faults = f
    /\ config = 0
    /\ disk = EmptyDb
    /\ db = EmptyDb
    /\ \E h \in Hosts : net = h[1] /\ ct = h[2]
    /\ pc = "idle"
    /\ idx = 0
    /\ fail_count = 0
    /\ exc = NoExc
    /\ trace = <<>>
    /\ calls = <<>>
    /\ muts = {}
    /\ passes = 0
    /\ starts = 0
    /\ outcome = "none"
    /\ dumped = FALSE
    /\ rerun = FALSE
    /\ streak = 0
    /\ limit = p

\* The pass controller: the base document, an undeclared bridge, a range
\* too small, and up to CtlFaults failing commands.
Init == InitWith({1, 4, 5}, CtlFaults, CtlPasses)
Spec == Init /\ [][Next]_vars

\* The circuit breaker: the base document run MaxPasses times with up to
\* MaxFaults failing commands, enough for the counter to pass the
\* threshold.
InitBreaker == InitWith({1}, MaxFaults, MaxPasses)
SpecBreaker == InitBreaker /\ [][Next]_vars

\* The address bookkeeping: range changes, explicit and automatic
\* addresses.
InitAddr == InitWith({1, 2, 3}, AddrFaults, AddrPasses)
SpecAddr == InitAddr /\ [][Next]_vars

\* The leases: clashing explicit addresses, automatic allocation and a
\* range that runs out.
InitLease == InitWith({1, 6, 7, 8}, AddrFaults, AddrPasses)
SpecLease == InitLease /\ [][Next]_vars

\* The USB parents: none, one or two devices on the port.
InitUsb ==
    /\ linux \in BOOLEAN
    /\ docs = {9, 10}
    /\ faults = AddrFaults
    /\ config = 0
    /\ disk = EmptyDb
    /\ db = EmptyDb
    /\ net \in {[InitNet EXCEPT !.usb = U] : U \in {{}, {"enx1"}, {"enx1", "enx2"}}}
    /\ ct = InitCt
    /\ pc = "idle"
    /\ idx = 0
    /\ fail_count = 0
    /\ exc = NoExc
    /\ trace = <<>>
    /\ calls = <<>>
    /\ muts = {}
    /\ passes = 0
    /\ starts = 0
    /\ outcome = "none"
    /\ dumped = FALSE
    /\ rerun = FALSE
    /\ streak = 0
    /\ limit = AddrPasses
SpecUsb == InitUsb /\ [][Next]_vars

\* One document, reconciled again and again, and no command fails for a
\* reason outside the model.
InitSteady == \E d \in {1, 7} : InitWith({d}, 0, AddrPasses)
SpecSteady == InitSteady /\ [][Next]_vars

\* ------------------------------------------------------------- properties
\* Calls that ask for a state and change nothing when it is already
\* there: add-br --may-exist, ip link set up, ip addr flush of a bridge
\* without address, the sysctl write of the Linux bridge mode.
EnsureOps == {"add-br", "link-up", "addr-flush", "sysctl"}

\* The commands other than reads that main() issues before it reads the
\* failure counter: the sysctl write in Linux bridge mode, none with OVS.
SetUpOps == IF linux THEN {"sysctl"} ELSE {}

\* C1: a pass over the document of the successful pass before it, with the
\* live state as that pass left it, issues no mutating call: every call is
\* a query or asks for what is already there.
C1_RerunIssuesNoMutation == rerun => muts \subseteq EnsureOps

\* C2 as stated: after two consecutive passes that each hit a failing
\* command from counter 0, the third pass is refused: nothing is
\* reconciled, no mutating call is issued and the breaker is tripped.
C2_ThirdPassTripped ==
    (passes = 3 /\ fail_count = 2 /\ streak >= 2 /\ pc = "idle")
        => (outcome = "tripped" /\ muts = {} /\ trace = <<>>)

\* C2 amended: the pass that starts after two consecutive failures is
\* still attempted; after three consecutive passes that hit a failing
\* command the counter is at least 3, and a pass started then is refused:
\* no item is reconciled and no mutating call issued, but for the sysctl
\* write that opens every run in Linux bridge mode.
C2_FourthPassTripped ==
    /\ (streak = 2 /\ fail_count = 2) => outcome # "tripped"
    /\ (streak = 3 /\ pc = "idle") => disk.failed >= 3
    /\ (streak = 3 /\ outcome \notin {"failed", "env", "aborted"})
           => (outcome = "tripped" /\ pc = "idle" /\ fail_count >= 3
               /\ muts = SetUpOps /\ trace = <<>>)

C2_Witness ==
    /\ passes = 4 /\ streak = 3 /\ outcome = "tripped"
    /\ fail_count = 3 /\ disk.failed = 3

\* C3 as stated: a pass that read a failure counter above 2 reconciles no
\* bridge, container interface or VLAN translation and issues no mutating
\* call at all.
C3_NoCallWhenTripped ==
    fail_count > _MAX_FAIL_COUNT => (trace = <<>> /\ muts = {})

\* C3 amended: a pass that read a failure counter above 2 reconciles no
\* bridge, container interface or VLAN translation and issues no mutating
\* call but the sysctl write that opens every run in Linux bridge mode,
\* before the counter is read; a pass that read a counter of at most 2 is
\* attempted. A run of main() that ended before it read the counter is no
\* pass in this sense.
C3_BreakerThreshold ==
    /\ _MAX_FAIL_COUNT = 2
    /\ fail_count > 2
           => (outcome \in {"tripped", "env"} /\ pc = "idle"
               /\ trace = <<>> /\ muts = SetUpOps)
    /\ (fail_count <= 2 /\ passes > 0) => outcome # "tripped"
    /\ outcome \in {"ok", "failed", "crashed"}
           => (fail_count <= 2 /\ trace # <<>>)
    /\ pc # "idle" => fail_count <= 2

C3_Witness ==
    /\ outcome = "tripped" /\ pc = "idle" /\ fail_count > _MAX_FAIL_COUNT
    /\ trace = <<>> /\ net.bridges # {}
    /\ linux /\ muts = {"sysctl"}

\* C4: at the end of every pass, whether it succeeded, was aborted by an
\* error or was refused by the breaker, the cache has been written back.
C4_DumpedOnEveryExit ==
    (pc = "idle" /\ outcome \in {"ok", "failed", "crashed", "tripped"}) => dumped

\* C5: after a pass that completed successfully the persisted failure
\* counter is zero.
C5_SuccessResetsCounter == (pc = "idle" /\ outcome = "ok") => disk.failed = 0

\* C6: after a pass in which a reconciler raised an error the persisted
\* failure counter is the counter read at pass start plus one.
C6_ErrorCountsOnce ==
    (pc = "idle" /\ outcome \in {"failed", "crashed"})
        => disk.failed = fail_count + 1

\* The items of a pass in the order of the document: the bridges, the
\* container interfaces, and the translations unless in Linux-bridge mode.
ItemsOf(doc) ==
    [i \in 1..Len(doc.bridge) |-> <<"bridge", doc.bridge[i].name>>]
    \o [i \in 1..Len(ContainerItems(doc.container)) |->
           <<"container", ContainerItems(doc.container)[i].name>>]
    \o (IF linux THEN <<>>
        ELSE [i \in 1..Len(doc.vlan_translations) |->
                 <<"translation", doc.vlan_translations[i].map>>])

IsPrefix(p, q) == Len(p) <= Len(q) /\ \A i \in 1..Len(p) : p[i] = q[i]

C7_Order ==
    passes > 0 =>
        /\ IsPrefix(trace, ItemsOf(Doc(config)))
        /\ (pc = "idle" /\ outcome = "ok") => trace = ItemsOf(Doc(config))
        /\ \A i, j \in 1..Len(trace) :
               /\ (trace[i][1] = "container" /\ trace[j][1] = "bridge") => j < i
               /\ (trace[i][1] = "translation" /\ trace[j][1] # "translation")
                      => (j < i /\ ~linux)

\* C7: in a pass the bridges are reconciled before the container
\* interfaces and these before the VLAN translations (none in Linux-bridge
\* mode), in the order of the document, and once an item raised an error
\* no further item is reconciled in that pass.
C7_PassOrdering ==
    /\ []C7_Order
    /\ [][exc # NoExc => (trace' = trace \/ trace' = <<>>)]_vars

C7_Witness ==
    /\ ~linux /\ pc = "idle" /\ outcome = "ok" /\ Len(trace) = 5
    /\ trace[5][1] = "translation"

\* The values of a host map are pairwise distinct.
Distinct(m) == \A k1, k2 \in DOMAIN m : k1 # k2 => m[k1] # m[k2]

DistinctHosts(d) ==
    \A b \in DOMAIN d.br : \A hk \in DOMAIN d.br[b].hosts : Distinct(d.br[b].hosts[hk])

\* C8: in the cache, in memory and as persisted, no address (the string
\* the cache stores, prefix length included) is the value of two host keys
\* of the same host map.
C8_HostMapDistinct == DistinctHosts(db) /\ DistinctHosts(disk)

C8_Witness ==
    \E b \in DOMAIN disk.br : \E hk \in DOMAIN disk.br[b].hosts :
        /\ Cardinality(DOMAIN disk.br[b].hosts[hk]) >= 3
        /\ passes >= 2

\* Every value of every host map lies in the cached range of the map.
InRangeHosts(d) ==
    \A b \in DOMAIN d.br : \A rk \in {"iprange", "ip6range"} :
        HostsKey(rk) \in DOMAIN d.br[b].hosts =>
            \A k \in DOMAIN d.br[b].hosts[HostsKey(rk)] :
                /\ NetworkValid(d.br[b].range[rk])
                /\ InNetwork(d.br[b].hosts[HostsKey(rk)][k], d.br[b].range[rk])

\* C9: every address committed to a host map lies inside the cached range
\* of that map.
C9_HostsInRange == InRangeHosts(db) /\ InRangeHosts(disk)

OtherRange(rk) == IF rk = "iprange" THEN "ip6range" ELSE "iprange"

\* The cache entry init_bridge finds: db.setdefault(bridge_name, {}).
CachedEntry(d, b) == IF b \in DOMAIN d.br THEN d.br[b] ELSE EmptyEntry

ContainerKeys(m) == DOMAIN m \cap ContainerNames

\* A step of init_bridge that meets a desired range other than the cached
\* one: the range is replaced, no reservation of the old range is left and
\* the bridge's own address is reserved without conflict; the container
\* reservations of a family whose range stays are as they were.
C10_Step ==
    pc = "bridges" =>
        LET info == Doc(config).bridge[idx]
            b == info.name
            old == CachedEntry(db, b)
            new == CachedEntry(db', b)
        IN  \A rk \in {"iprange", "ip6range"} :
                LET hk == HostsKey(rk)
                    ok == HostsKey(OtherRange(rk))
                IN  (info[rk] # old.range[rk] /\ new.range[rk] = info[rk]) =>
                        /\ hk \in DOMAIN new.hosts
                        /\ DOMAIN new.hosts[hk] \subseteq {b}
                        /\ Truthy(info[AddrKey(rk)])
                               => Get(new.hosts[hk], b) = info[AddrKey(rk)]
                        /\ (info[OtherRange(rk)] = old.range[OtherRange(rk)]
                            /\ ok \in DOMAIN old.hosts)
                               => /\ ok \in DOMAIN new.hosts
                                  /\ \A c \in ContainerKeys(old.hosts[ok]) :
                                         Get(new.hosts[ok], c) = old.hosts[ok][c]
                                  /\ ContainerKeys(new.hosts[ok]) =
                                         ContainerKeys(old.hosts[ok])

\* Container interfaces and translations are reconciled against the
\* ranges of the document.
C10_RangesCurrent ==
    pc \in {"containers", "translations"} =>
        \A i \in 1..Len(Doc(config).bridge) :
            LET info == Doc(config).bridge[i]
            IN  /\ info.name \in DOMAIN db.br
                /\ \A rk \in {"iprange", "ip6range"} :
                       db.br[info.name].range[rk] = info[rk]

\* C10: when the desired range of a bridge differs from the cached one,
\* the host map of that family is emptied and the cached range replaced
\* before any reservation of the pass, so that a reservation after the
\* change meets none from before it; the other family's map is untouched.
C10_RangeChangeClears == []C10_RangesCurrent /\ [][C10_Step]_vars

\* The persisted cache holds container reservations of br0 in a range the
\* pass has just replaced.
C10_Witness ==
    /\ pc = "containers"
    /\ "br0" \in DOMAIN disk.br
    /\ disk.br["br0"].range["iprange"] # db.br["br0"].range["iprange"]
    /\ Truthy(disk.br["br0"].range["iprange"])
    /\ "iprange_hosts" \in DOMAIN disk.br["br0"].hosts
    /\ ContainerKeys(disk.br["br0"].hosts["iprange_hosts"]) # {}
    /\ DOMAIN db.br["br0"].hosts["iprange_hosts"] = {"br0"}
    /\ ContainerKeys(db.br["br0"].hosts["ip6range_hosts"]) # {}


\* The host map of range_key in the cache entry e ({} when it is missing).
HostMapOf(e, range_key) ==
    IF HostsKey(range_key) \in DOMAIN e.hosts THEN e.hosts[HostsKey(range_key)]
    ELSE EmptyMap

\* The entries of the host keys other than key are in m2 as they are in m1.
OthersKept(m1, m2, key) ==
    /\ DOMAIN m1 \ {key} = DOMAIN m2 \ {key}
    /\ \A k \in DOMAIN m1 \ {key} : m2[k] = m1[k]

HeldByOther(m, key, a) == \E k \in DOMAIN m \ {key} : m[k] = a

\* A container interface with an explicit IPv4 address is reconciled.
C11_Container ==
    pc = "containers" =>
        LET item == ContainerItems(Doc(config).container)[idx]
            c == item.name
            a == item.info.ipaddress
            b == item.info.bridge
            old == HostMapOf(CachedEntry(db, b), "iprange")
            new == HostMapOf(CachedEntry(db', b), "iprange")
        IN  (c \in ct.running /\ b \in DOMAIN db.br /\ Truthy(a) /\ a # NoIP
             /\ InterfaceValid(a) /\ a.v = 4) =>
                /\ HeldByOther(old, c, a)
                       => (exc' = "ValueError" /\ OthersKept(old, new, c))
                /\ Get(old, c) = a => (new = old /\ exc' # "ValueError")
                /\ (~HeldByOther(old, c, a))
                       => (Get(new, c) = a /\ OthersKept(old, new, c)
                           /\ exc' # "ValueError")

\* A bridge with an explicit IPv4 address and an unchanged range is
\* reconciled.
C11_Bridge ==
    pc = "bridges" =>
        LET info == Doc(config).bridge[idx]
            b == info.name
            a == info.ipaddress
            old == HostMapOf(CachedEntry(db, b), "iprange")
            new == HostMapOf(CachedEntry(db', b), "iprange")
        IN  (Truthy(a) /\ info.iprange = CachedEntry(db, b).range["iprange"]) =>
                /\ OthersKept(old, new, b)
                /\ (Get(old, b) # a /\ HeldByOther(old, b, a))
                       => /\ exc' \in {"ValueError", "CalledProcessError"}
                          /\ exc' = "CalledProcessError" => Len(calls') <= 2
                          /\ Get(new, b) # a
                /\ Get(old, b) = a => (Get(new, b) = a /\ exc' # "ValueError")

\* C11: when a host key asks for an explicit address that another host
\* key of the same range holds, the reservation fails with ValueError and
\* the holder's entry stays; an address nobody else holds is reserved, and
\* asking again for the address the key holds changes nothing and raises
\* no conflict.
C11_ExplicitConflict == [][C11_Container /\ C11_Bridge]_vars

\* c2 was refused the address c1 holds.
C11_Witness ==
    /\ config = 6 /\ pc = "finally" /\ exc = "ValueError"
    /\ trace[Len(trace)] = <<"container", "c2">>
    /\ Get(db.br["br0"].hosts["iprange_hosts"], "c1") = A4(Net10_0_0 + 9, 24)
    /\ "c2" \notin DOMAIN db.br["br0"].hosts["iprange_hosts"]


\* The hosts of range r from the (n+1)-th on whose address string is no
\* value of m.
Unreserved(r, m, n) ==
    {h \in (HostLo(r) + n)..HostHi(r) :
        \A k \in DOMAIN m : m[k] # [v |-> r.v, ip |-> h, plen |-> r.plen]}

\* A container interface without explicit IPv4 address is reconciled on a
\* bridge whose cached range has an unreserved host beyond the first 5.
C12_Step ==
    pc = "containers" =>
        LET item == ContainerItems(Doc(config).container)[idx]
            c == item.name
            b == item.info.bridge
            r == CachedEntry(db, b).range["iprange"]
            old == HostMapOf(CachedEntry(db, b), "iprange")
            new == HostMapOf(CachedEntry(db', b), "iprange")
            free == Unreserved(r, old, 5)
        IN  (c \in ct.running /\ b \in DOMAIN db.br /\ ~Truthy(item.info.ipaddress)
             /\ Truthy(r) /\ NetworkValid(r) /\ free # {}) =>
                /\ c \in DOMAIN new
                /\ new[c].v = r.v /\ new[c].plen = r.plen
                /\ new[c].ip \in free
                /\ \A h \in free : new[c].ip <= h
                /\ new[c].ip >= HostLo(r) + 5
                /\ OthersKept(old, new, c)

\* C12: a container without explicit IPv4 address on a bridge with a
\* cached range gets the lowest host address of the range, the first 5
\* left out, that is no value of the host map; no other entry changes.
C12_AutoAllocation == [][C12_Step]_vars

\* After the first pass over the base document c1 holds the 6th host of
\* 10.0.0.0/24 and c2 the 7th.
C12_Witness ==
    /\ config = 1 /\ passes = 1 /\ pc = "idle" /\ outcome = "ok"
    /\ disk.br["br0"].hosts["iprange_hosts"] =
           [k \in {"br0", "c1", "c2"} |->
               IF k = "br0" THEN A4(Net10_0_0 + 1, 24)
               ELSE IF k = "c1" THEN A4(Net10_0_0 + 6, 24)
               ELSE A4(Net10_0_0 + 7, 24)]


\* The automatic allocation of family range_key has no host left for the
\* container of item: the container asks for no explicit address, the
\* cached range is set, and every host beyond the first 5 is held by
\* another host key.
ExhaustedFor(item, range_key) ==
    LET e == CachedEntry(db, item.info.bridge)
        r == e.range[range_key]
    IN  /\ ~Truthy(item.info[AddrKey(range_key)])
        /\ Truthy(r)
        /\ NetworkValid(r)
        /\ Unreserved(r, Pop(HostMapOf(e, range_key), item.name), 5) = {}

C13_Step ==
    pc = "containers" =>
        LET item == ContainerItems(Doc(config).container)[idx]
        IN  (item.name \in ct.running /\ item.info.bridge \in DOMAIN db.br) =>
                /\ ExhaustedFor(item, "iprange") => exc' = "IndexError"
                /\ exc' = "IndexError"
                       => (ExhaustedFor(item, "iprange")
                           \/ ExhaustedFor(item, "ip6range"))

\* C13: the automatic allocation raises IndexError exactly when no host
\* beyond the first 5 of the range is free for the requesting container,
\* ranges with fewer than 5 hosts included; it does not fail for a
\* container that holds an address of the range.
C13_RangeExhausted == [][C13_Step]_vars


\* The positions in cs of the commands that push the trunk or native VLAN
\* setting of parent p: bridge vlan add dev p vid .. [pvid untagged], or
\* ovs-vsctl set port p trunk=.. / tag=..
VlanCalls(cs, p, key) ==
    {i \in 1..Len(cs) :
        /\ cs[i].on = p
        /\ \/ cs[i].op = "vlan-add" /\ cs[i].arg = (IF key = "native" THEN "pvid" ELSE "")
           \/ cs[i].op = "set-port" /\ cs[i].arg = key}

C14_Step ==
    pc = "bridges" =>
        LET info == Doc(config).bridge[idx]
            old == CachedEntry(db, info.name).parents
            new == CachedEntry(db', info.name).parents
        IN  \A i \in 1..Len(info.parents) :
                LET p == info.parents[i].iface
                IN  (p \in HostDevs /\ p \in DOMAIN old) =>
                        \A key \in {"trunk", "native"} :
                            info.parents[i][key] = old[p][key] =>
                                /\ VlanCalls(calls', p, key) = {}
                                /\ p \in DOMAIN new
                                /\ new[p][key] = old[p][key]

\* C14: in both backends a parent's trunk or native VLAN setting is pushed
\* to the control plane only when the desired value differs from the value
\* cached for the parent; when they are equal no VLAN command is issued
\* for the parent and the cached value stays.
C14_ParentVlanGuard == [][C14_Step]_vars


\* The mapping vlan_map is in place on bridge x: both ends of its veth pair
\* exist and are ports of x, tagged with the two VLANs of the mapping.
TranslationOn(n, vlan_map, x) ==
    LET veth0 == VethName(0, _hash_string(vlan_map))
        veth1 == VethName(1, _hash_string(vlan_map))
    IN  /\ {veth0, veth1} \subseteq n.links
        /\ n.master[veth0] = x /\ n.master[veth1] = x
        /\ n.tag[veth0] = SplitMap(vlan_map)[1]
        /\ n.tag[veth1] = SplitMap(vlan_map)[2]

C15_Step ==
    pc = "translations" =>
        LET tr == Doc(config).vlan_translations[idx]
        IN  \A x \in BridgeNames :
                TranslationOn(net, tr.map, x) =>
                    /\ net' = net
                    /\ Issued(calls') = {}
                    /\ tr.on # x => (exc' = "ValueError" /\ pc' = "finally")
                    /\ tr.on = x => exc' = NoExc

\* C15: once a mapping is in place on bridge X, reconciling it onto another
\* bridge raises ValueError and leaves both endpoints as they are;
\* reconciling it onto X again succeeds without any creation, attach or
\* tag call.
C15_TranslationConflict == [][C15_Step]_vars

\* The translation of document 4 names br1 while the pair is on br0.
C15_Witness ==
    /\ config = 4 /\ pc = "finally" /\ exc = "ValueError"
    /\ trace[Len(trace)] = <<"translation", "100:200">>
    /\ TranslationOn(net, "100:200", "br0")


C16_Step ==
    pc = "containers" =>
        LET item == ContainerItems(Doc(config).container)[idx]
            key == <<item.name, item.info.iface>>
        IN  (item.name \in ct.running /\ item.info.bridge \in DOMAIN db.br
             /\ ct.iface[key].present /\ ct.port[key].present) =>
                /\ exc' = NoExc
                /\ Issued(calls') \subseteq {"ct-set-mac"}
                /\ ct'.port = ct.port
                /\ ct'.iface[key].present
                /\ \A b \in DOMAIN db.br : db'.br[b].hosts = db.br[b].hosts

\* C16: when the container runs, the interface is in its namespace and the
\* control plane knows its port, reconciling the interface checks the MAC
\* only and ends in success: nothing is created or deleted, no VLAN or
\* trunk call is issued and the host maps of the cache do not change.
C16_PresentAndKnown == [][C16_Step]_vars


\* The positions in cs of the failed calls that are no queries.
FailedMutations(cs) ==
    {i \in 1..Len(cs) : cs[i].rc = 1 /\ cs[i].op \notin ReadOps}

\* C17 as stated: a mutating call that fails ends the pass: it is the last
\* call of the item, CalledProcessError is raised and no further item is
\* reconciled.
C17_EveryFailureFatal ==
    \A i \in FailedMutations(calls) :
        i = Len(calls) /\ exc = "CalledProcessError" /\ pc \in {"finally", "idle"}

\* C17 amended: a failing call that was run with check=True is the last
\* call of its item, raises CalledProcessError and ends the pass; a
\* failing call that was run with check=False raises nothing: whenever
\* CalledProcessError is raised, the last call is a failed checked one.
C17_CheckedFailureFatal ==
    /\ \A i \in FailedMutations(calls) :
           calls[i].check =>
               (i = Len(calls) /\ exc = "CalledProcessError"
                /\ pc \in {"finally", "idle"})
    /\ exc = "CalledProcessError" =>
           /\ pc \in {"finally", "idle"}
           /\ calls # <<>>
           /\ calls[Len(calls)].rc = 1
           /\ calls[Len(calls)].check

\* A bridge step in which brctl addbr failed unheeded and a later checked
\* command failed and ended the pass.
C17_Witness ==
    /\ pc = "finally" /\ exc = "CalledProcessError"
    /\ Len(calls) >= 2
    /\ calls[1].op = "add-br" /\ calls[1].rc = 1 /\ ~calls[1].check
    /\ calls[Len(calls)].rc = 1 /\ calls[Len(calls)].check


\* The address the cache holds for bridge b in the family of range_key, as
\* the bridge step finds it: none once the cached range differs from R.
CachedAddr(b, range_key, R) ==
    LET e == CachedEntry(db, b)
    IN  IF e.range[range_key] = R THEN Get(HostMapOf(e, range_key), b) ELSE NoneA

\* The positions in cs of the calls op issued on b for the family of range_key.
AddrCalls(cs, op, b, range_key) ==
    {i \in 1..Len(cs) : cs[i].op = op /\ cs[i].on = b /\ cs[i].arg = range_key}

\* The add at position i of cs follows an address query that failed.
AfterFailedShow(cs, i) ==
    i > 1 /\ cs[i - 1].op = "addr-show" /\ cs[i - 1].rc = 1

\* The statement for one family; heeded says whether a query that failed
\* counts as a reason to add the address.
C18_Family(info, range_key, heeded) ==
    LET b == info.name
        R == info[range_key]
        A == info[AddrKey(range_key)]
        differs == CachedAddr(b, range_key, R) # A
        lost == A \notin net.addrs[b]
        adds == AddrCalls(calls', "addr-add", b, range_key)
        flushes == AddrCalls(calls', "addr-flush", b, range_key)
        unread == heeded /\ \E i \in adds : AfterFailedShow(calls', i)
    IN  (Truthy(A) /\ InterfaceValid(A) /\ NetworkValid(R) /\ InNetwork(A, R)) =>
            /\ exc' = NoExc =>
                   /\ Get(HostMapOf(db'.br[b], range_key), b) = A
                   /\ A \in net'.addrs[b]
                   /\ (adds # {}) <=> (differs \/ lost \/ unread)
                   /\ (flushes # {}) <=> differs
            /\ adds # {} => (differs \/ lost \/ unread)
            /\ flushes # {} => differs
            /\ Cardinality(adds) <= 1 /\ Cardinality(flushes) <= 1
            /\ \A i \in adds : differs => \E j \in flushes : j < i
            /\ (~differs /\ ~lost /\ ~unread) => (adds = {} /\ flushes = {})
            /\ \A i \in adds : AfterFailedShow(calls', i) => ~differs

C18_StepAsStated ==
    pc = "bridges" =>
        \A range_key \in {"iprange", "ip6range"} :
            C18_Family(Doc(config).bridge[idx], range_key, FALSE)

\* C18 as stated: a bridge step that completes leaves the desired in-range
\* address A in the bridge's host map and on the live interface; A is added
\* exactly when the cached entry differs from A (after the flush) or the
\* cache holds A and the live interface has lost it; with cache and live
\* state both at A no address is flushed or added.
C18_AddedOnlyOnDrift == [][C18_StepAsStated]_vars

C18_Step ==
    pc = "bridges" =>
        \A range_key \in {"iprange", "ip6range"} :
            C18_Family(Doc(config).bridge[idx], range_key, TRUE)

\* C18 amended: as stated, with one more reason to add A: the cache holds A
\* and the address query failed, which is read as an interface without
\* address; with cache and live state both at A and the query answered, no
\* address is flushed or added.
C18_BridgeAddress == [][C18_Step]_vars

\* A pass repaired a lost address: the cache held A, so nothing was
\* flushed, and A was added again and is live.
C18_Witness ==
    /\ pc # "idle" /\ exc = NoExc /\ passes >= 2
    /\ \E i \in 1..Len(calls) :
           /\ calls[i].op = "addr-add" /\ calls[i].arg = "iprange" /\ calls[i].rc = 0
           /\ AddrCalls(calls, "addr-flush", calls[i].on, "iprange") = {}
           /\ Get(HostMapOf(db.br[calls[i].on], "iprange"), calls[i].on)
                  \in net.addrs[calls[i].on]


\* The positions in cs of the calls op.
At(cs, op) == {i \in 1..Len(cs) : cs[i].op = op}

\* Every call a in cs comes before every call b.
Before(cs, a, b) == \A i \in At(cs, a) : \A j \in At(cs, b) : i < j

C19_Step ==
    pc = "containers" =>
        LET item == ContainerItems(Doc(config).container)[idx]
            key == <<item.name, item.info.iface>>
            cs == calls'
            created == \E i \in At(cs, "ct-add-port") : cs[i].rc = 0
        IN  /\ (At(cs, "ct-link-show") # {} /\ ct.iface[key].present
                /\ ~ct.port[key].present) =>
                   /\ Cardinality(At(cs, "ct-link-del")) = 1
                   /\ Cardinality(At(cs, "ct-del-port")) = 1
                   /\ Cardinality(At(cs, "ct-add-port")) = 1
                   /\ Before(cs, "ct-link-del", "ct-del-port")
                   /\ Before(cs, "ct-del-port", "ct-add-port")
            /\ (At(cs, "ct-link-show") # {} /\ ~ct.iface[key].present) =>
                   /\ At(cs, "ct-link-del") = {}
                   /\ Cardinality(At(cs, "ct-del-port")) = 1
                   /\ Cardinality(At(cs, "ct-add-port")) = 1
                   /\ Before(cs, "ct-del-port", "ct-add-port")
            /\ At(cs, "ct-set-vlan") # {} => (created /\ item.info.vlan # 0)
            /\ At(cs, "ct-set-trunk") # {} => (created /\ item.info.trunk # <<>>)
            /\ Before(cs, "ct-add-port", "ct-set-vlan")
            /\ Before(cs, "ct-add-port", "ct-set-trunk")
            /\ (created /\ exc' = NoExc) =>
                   /\ Cardinality(At(cs, "ct-set-vlan")) =
                          IF item.info.vlan # 0 THEN 1 ELSE 0
                   /\ Cardinality(At(cs, "ct-set-trunk")) =
                          IF item.info.trunk # <<>> THEN 1 ELSE 0

\* C19: once the interface check is reached, an interface that is in the
\* container but unknown to the control plane is deleted, then its stale
\* port record, then one create call is issued; an absent interface has its
\* stale port record deleted before the one create call; the VLAN and trunk
\* calls come only after a create call that succeeded and only for the
\* options the document requests.
C19_RecoveryPaths == [][C19_Step]_vars

\* The interface was in the container and unknown to the control plane:
\* it was deleted, the port record was deleted and the interface created.
C19_Witness ==
    /\ exc = NoExc
    /\ \E i, j, k \in 1..Len(calls) :
           /\ i < j /\ j < k
           /\ calls[i].op = "ct-link-del"
           /\ calls[j].op = "ct-del-port"
           /\ calls[k].op = "ct-add-port" /\ calls[k].rc = 0
           /\ ct.port[<<calls[k].on, calls[k].arg>>].present


\* The parents of a bridge that are given by the USB alias.
UsbParents(info) ==
    {i \in 1..Len(info.parents) : info.parents[i].iface = UsbAlias}

C20_Step ==
    pc = "bridges" =>
        LET info == Doc(config).bridge[idx]
        IN  UsbParents(info) # {} =>
                /\ Cardinality(net.usb) = 1 =>
                       /\ \A i \in 1..Len(calls') : calls'[i].on # UsbAlias
                       /\ info.name \in DOMAIN db'.br =>
                              UsbAlias \notin DOMAIN db'.br[info.name].parents
                /\ Cardinality(net.usb) > 1 =>
                       /\ exc' \in {"ValueError", "CalledProcessError"}
                       /\ \A i \in 1..Len(calls') :
                              calls'[i].on \notin net.usb \cup {UsbAlias}

\* C20: with one device matching the USB alias, no command of the bridge
\* step names the alias and the alias is no key of the cached parents: the
\* resolved device name is used throughout; with more than one match the
\* step fails before any command names the alias or a matching device.
C20_UsbResolved == [][C20_Step]_vars


\* The container interfaces of the current document that exist and were
\* created with an automatically allocated IPv4 address.
AutoIfaces ==
    {item \in Values(ContainerItems(Doc(config).container)) :
        /\ item.info.ipaddress = NoneA
        /\ ct.iface[<<item.name, item.info.iface>>].present
        /\ Truthy(ct.iface[<<item.name, item.info.iface>>].ipaddress)}

\* C21: between the passes over one unchanged document, the host-map entry
\* of every container whose interface exists and was created with an
\* automatically allocated address equals the address of that interface.
C21_LeaseMirrorsLive ==
    (pc = "idle" /\ config # 0) =>
        \A item \in AutoIfaces :
            Get(HostMapOf(CachedEntry(db, item.info.bridge), "iprange"), item.name)
                = ct.iface[<<item.name, item.info.iface>>].ipaddress

\* C22: after successful passes over one unchanged document, while
\* containers start, restart or lose their port, no two interfaces that
\* exist on the same bridge were created with the same automatically
\* allocated address.
C22_NoDuplicateAddress ==
    (pc = "idle" /\ config # 0 /\ db.failed <= 0 /\ outcome \in {"ok", "env"}) =>
        \A x, y \in AutoIfaces :
            (x.name # y.name /\ x.info.bridge = y.info.bridge) =>
                ct.iface[<<x.name, x.info.iface>>].ipaddress
                    # ct.iface[<<y.name, y.info.iface>>].ipaddress


\* The parents the cache of bridge b knows that are attached to b.
AttachedParents(b) ==
    {p \in DOMAIN db.br[b].parents : net.master[p] = b}

\* C23: when a pass has completed successfully, the trunk and the native
\* VLAN of every attached parent in the control plane equal the values
\* cached for that parent.
C23_ParentVlanAgrees ==
    (pc = "idle" /\ outcome = "ok") =>
        \A b \in DOMAIN db.br : \A p \in AttachedParents(b) :
            /\ net.trunk[p] = SeqToSet(db.br[b].parents[p].trunk)
            /\ net.tag[p] = db.br[b].parents[p].native


\* The mapping tr is in place: both ends of its pair exist and are attached
\* to the bridge, end 0 with the source tag and end 1 with the destination
\* tag.
Translated(tr) ==
    \A i \in {0, 1} :
        LET veth == VethName(i, _hash_string(tr.map))
        IN  /\ veth \in net.links
            /\ net.master[veth] = tr.on
            /\ net.tag[veth] = SplitMap(tr.map)[i + 1]

\* C24: when a pass has completed successfully, every mapping it
\* reconciled is in place, whatever commands failed in the passes before.
C24_EndpointsTagged ==
    (pc = "idle" /\ outcome = "ok" /\ config # 0) =>
        \A n \in 1..Len(Doc(config).vlan_translations) :
            <<"translation", Doc(config).vlan_translations[n].map>> \in Values(trace)
                => Translated(Doc(config).vlan_translations[n])


====
